---- MODULE Spec2Model ----
(***************************************************************************)
(* Room / round state machine and scoring engine of the                    *)
(* Raja-Mantri-Chor-Sipahi backend (src/main.py).                          *)
(*                                                                         *)
(* A POST handler is an action; it records in `last` the arguments it has  *)
(* read and the value it returns (or the HTTPException it raises).  A GET  *)
(* handler changes nothing: it is an operator from the state to the value  *)
(* it returns, and its action leaves the state as it is.  The marshalling  *)
(* of returned values by the web framework is not modelled.                *)
(*                                                                         *)
(* Under Spec, SpecWait, SpecScore and SpecJoin every handler runs from    *)
(* its first statement to its return without another request in between.   *)
(* The handlers are plain `def` functions, which the framework runs in a   *)
(* pool of threads: under SpecRace join_multiple_players runs statement by *)
(* statement in several threads, whose steps interleave.                   *)
(***************************************************************************)
EXTENDS Integers, Sequences, FiniteSets, TLC

VARIABLES
    rooms,      \* the module-level dict  rooms: roomId -> Room
    nextId,     \* number of the next uuid4() drawn by the process
    last,       \* the latest POST request: handler, arguments read, status, value
    hist,       \* history per room: successful calls and points handed out
    calls       \* thread -> the join_multiple_players call it is running

vars == <<rooms, nextId, last, hist, calls>>

-----------------------------------------------------------------------------
(* Bounds of the exploration *)

\* Spec: one room of four players playing several rounds
MaxIds == 5         \* uuid4() draws (players and rooms together)
MaxNames == 3       \* length of playerNames in one join request
MaxRounds == 2      \* successful role assignments per room
MaxGuesses == 2     \* successful guesses per room

\* SpecWait: one room with a waitlisted player
WaitMaxIds == 6
WaitMaxNames == 4
WaitMaxRounds == 2
WaitMaxGuesses == 1

\* SpecScore: one round guessed more than once, beside a waitlist or a second room
ScoreMaxIds == 7
ScoreMaxNames == 5
ScoreMaxRounds == 1
ScoreMaxGuesses == 2

\* SpecRace: join requests running in threads on a room near its fourth seat
RaceMaxIds == 6
RaceMaxNames == 2
RaceMaxRounds == 1
RaceMaxGuesses == 1
MaxThreads == 2     \* threads of the pool running join_multiple_players

\* SpecJoin: several rooms filling up and overflowing
JoinMaxIds == 8
JoinMaxNames == 5
JoinMaxRounds == 1
JoinMaxGuesses == 0

-----------------------------------------------------------------------------
(* Values *)

None == "None"                      \* Python's None
UnknownId == "nobody"               \* a string that is no generated uuid
HostNames == {"Alice"}              \* names of the players who create rooms
RoomNames == {"Den"}                \* room names clients offer

\* POINTS with a Sipahi worth 400
POINTSLowSipahi(role) ==
    CASE role = "Raja" -> 1000
      [] role = "Mantri" -> 800
      [] role = "Sipahi" -> 400
      [] role = "Chor" -> 0

POINTS(role) ==
    CASE role = "Raja" -> 1000
      [] role = "Mantri" -> 800
      [] role = "Sipahi" -> 500
      [] role = "Chor" -> 0

\* HasPoints of a POINTS table without the Chor's entry
HasPointsNoChor(role) == role \in {"Raja", "Mantri", "Sipahi"}

\* the keys of POINTS
HasPoints(role) == role \in {"Raja", "Mantri", "Sipahi", "Chor"}

RoleList == <<"Raja", "Mantri", "Chor", "Sipahi">>

\* Uuid of a source that has four strings to give
UuidOfFour(n) == "u" \o ToString(n % 4)

\* str(uuid4()): the n-th draw; distinct draws give distinct strings
Uuid(n) == "u" \o ToString(n)

\* Player.__init__
Player(name, id) ==
    [id |-> id, name |-> name, role |-> None, score |-> 0]

\* Room that starts with its host as the Mantri
RoomHostIsMantri(name, hostPlayer, id) ==
    [id |-> id, name |-> name,
     players |-> <<hostPlayer>>,
     waitlist |-> <<>>,
     roles_assigned |-> FALSE,
     mantri_id |-> hostPlayer.id,
     chor_id |-> None,
     guess_submitted |-> FALSE,
     guessed_player_id |-> None,
     round_number |-> 0]

\* Room.__init__
Room(name, hostPlayer, id) ==
    [id |-> id, name |-> name,
     players |-> <<hostPlayer>>,
     waitlist |-> <<>>,
     roles_assigned |-> FALSE,
     mantri_id |-> None,
     chor_id |-> None,
     guess_submitted |-> FALSE,
     guessed_player_id |-> None,
     round_number |-> 0]

\* raise HTTPException(status, detail)
HTTPException(status, detail) ==
    [status |-> status, body |-> [detail |-> detail]]

\* a handler's normal return
Return(body) ==
    [status |-> 200, body |-> body]

\* what `last` keeps of a POST request
Post(op, args, response) ==
    [op |-> op, args |-> args, status |-> response.status, body |-> response.body]

Min(a, b) == IF a < b THEN a ELSE b

Ids(seq) == {seq[i].id : i \in 1..Len(seq)}

\* the history of a room nobody has used yet
NewHist(hostId) ==
    [assigns |-> 0, guesses |-> 0, fresh |-> FALSE, earned |-> (hostId :> 0),
     raised |-> 0, raced |-> FALSE]

-----------------------------------------------------------------------------
Init ==
    /\ rooms = <<>>
    /\ nextId = 1
    /\ last = [op |-> "start", args |-> <<>>, status |-> 0, body |-> <<>>]
    /\ calls = <<>>
    /\ hist = <<>>

-----------------------------------------------------------------------------
(* POST /room/create *)

create_room(roomName, playerName) ==
    LET host == Player(playerName, Uuid(nextId))
        room == Room(roomName, host, Uuid(nextId + 1))
    IN  /\ rooms' = (room.id :> room) @@ rooms
        /\ nextId' = nextId + 2
        /\ hist' = (room.id :> NewHist(host.id)) @@ hist
        /\ last' = Post("create_room",
                        [roomName |-> roomName, playerName |-> playerName],
                        Return([roomId |-> room.id, playerId |-> host.id,
                                message |-> "Room created successfully"]))

-----------------------------------------------------------------------------
(* POST /room/join-multiple *)

\* JoinLoop with the comparison off by one: a fifth player is admitted
RECURSIVE JoinLoopFive(_, _, _, _, _)
JoinLoopFive(room, names, n, added, waitlisted) ==
    IF names = <<>>
    THEN [room |-> room, added |-> added, waitlisted |-> waitlisted]
    ELSE LET p == Player(Head(names), Uuid(n))
             e == [id |-> p.id, name |-> p.name]
         IN  IF Len(room.players) <= 4
             THEN JoinLoopFive([room EXCEPT !.players = Append(@, p)],
                               Tail(names), n + 1, Append(added, e), waitlisted)
             ELSE JoinLoopFive([room EXCEPT !.waitlist = Append(@, p)],
                               Tail(names), n + 1, added, Append(waitlisted, e))

\* JoinLoop that puts a newcomer at the head of the waitlist
RECURSIVE JoinLoopFront(_, _, _, _, _)
JoinLoopFront(room, names, n, added, waitlisted) ==
    IF names = <<>>
    THEN [room |-> room, added |-> added, waitlisted |-> waitlisted]
    ELSE LET p == Player(Head(names), Uuid(n))
             e == [id |-> p.id, name |-> p.name]
         IN  IF Len(room.players) < 4
             THEN JoinLoopFront([room EXCEPT !.players = Append(@, p)],
                                Tail(names), n + 1, Append(added, e), waitlisted)
             ELSE JoinLoopFront([room EXCEPT !.waitlist = <<p>> \o @],
                                Tail(names), n + 1, added, Append(waitlisted, e))

\* HasSeat that counts a fifth seat
HasSeatFive(room) == Len(room.players) < 5

\* len(room.players) < 4: the room has a seat for one more active player
HasSeat(room) == Len(room.players) < 4

\* the for loop over data.playerNames; n is the number of the next uuid
RECURSIVE JoinLoop(_, _, _, _, _)
JoinLoop(room, names, n, added, waitlisted) ==
    IF names = <<>>
    THEN [room |-> room, added |-> added, waitlisted |-> waitlisted]
    ELSE LET p == Player(Head(names), Uuid(n))
             e == [id |-> p.id, name |-> p.name]
         IN  IF HasSeat(room)
             THEN JoinLoop([room EXCEPT !.players = Append(@, p)],
                           Tail(names), n + 1, Append(added, e), waitlisted)
             ELSE JoinLoop([room EXCEPT !.waitlist = Append(@, p)],
                           Tail(names), n + 1, added, Append(waitlisted, e))

join_multiple_players(roomId, playerNames) ==
    IF roomId \notin DOMAIN rooms
        THEN /\ last' = Post("join_multiple_players", [roomId |-> roomId],
                             HTTPException(404, "Room not found"))
             /\ UNCHANGED <<rooms, nextId, hist>>
        ELSE LET r == JoinLoop(rooms[roomId], playerNames, nextId, <<>>, <<>>)
                 new == Ids(r.added) \cup Ids(r.waitlisted)
             IN  /\ rooms' = [rooms EXCEPT ![roomId] = r.room]
                 /\ nextId' = nextId + Len(playerNames)
                 /\ hist' = [hist EXCEPT ![roomId].earned =
                                @ @@ [i \in new |-> 0]]
                 /\ last' = Post("join_multiple_players",
                                 [roomId |-> roomId, playerNames |-> playerNames],
                                 Return([roomId |-> r.room.id, added |-> r.added,
                                         waitlisted |-> r.waitlisted,
                                         message |-> "Players processed successfully"]))

-----------------------------------------------------------------------------
(* GET /room/players/{roomId} *)

get_players(roomId) ==
    IF roomId \notin DOMAIN rooms
    THEN HTTPException(404, "Room not found")
    ELSE LET room == rooms[roomId]
         IN  Return([roomId |-> roomId,
                     players |-> [i \in 1..Len(room.players) |->
                                    [id |-> room.players[i].id,
                                     name |-> room.players[i].name]],
                     waitlistCount |-> Len(room.waitlist)])

-----------------------------------------------------------------------------
(* POST /room/assign/{roomId} *)

\* AssignLoop that records the Mantri and the Chor of the first round only
RECURSIVE AssignLoopFirstOnly(_, _, _)
AssignLoopFirstOnly(room, ROLES, i) ==
    IF i > Min(Len(room.players), Len(ROLES))
    THEN room
    ELSE LET role == ROLES[i]
             p == room.players[i]
             r1 == [room EXCEPT !.players[i].role = role]
             r2 == IF role = "Mantri" /\ r1.mantri_id = None
                   THEN [r1 EXCEPT !.mantri_id = p.id] ELSE r1
             r3 == IF role = "Chor" /\ r2.chor_id = None
                   THEN [r2 EXCEPT !.chor_id = p.id] ELSE r2
         IN  AssignLoopFirstOnly(r3, ROLES, i + 1)

\* for p, role in zip(room.players, ROLES), from position i on
RECURSIVE AssignLoop(_, _, _)
AssignLoop(room, ROLES, i) ==
    IF i > Min(Len(room.players), Len(ROLES))
    THEN room
    ELSE LET role == ROLES[i]
             p == room.players[i]
             r1 == [room EXCEPT !.players[i].role = role]
             r2 == IF role = "Mantri" THEN [r1 EXCEPT !.mantri_id = p.id] ELSE r1
             r3 == IF role = "Chor" THEN [r2 EXCEPT !.chor_id = p.id] ELSE r2
         IN  AssignLoop(r3, ROLES, i + 1)

\* Shuffles if each player drew a role independently
ShufflesWithRepeats == [1..4 -> {"Raja", "Mantri", "Chor", "Sipahi"}]

\* the outcomes of random.shuffle(ROLES)
Shuffles ==
    {s \in [1..4 -> {"Raja", "Mantri", "Chor", "Sipahi"}] :
        \A i, j \in 1..4 : i # j => s[i] # s[j]}

\* CanStart that lets three players start
CanStartLoose(room) == Len(room.players) >= 3

\* len(room.players) != 4 raises; exactly four players may start a round
CanStart(room) == Len(room.players) = 4

\* StartRound that leaves the previous round's guess flag standing
StartRoundKeepGuess(room) ==
    [room EXCEPT !.roles_assigned = TRUE,
                 !.round_number = @ + 1]

\* StartRound that does not count the round
StartRoundNoCount(room) ==
    [room EXCEPT !.roles_assigned = TRUE,
                 !.guess_submitted = FALSE]

\* the three assignments that close assign_roles
StartRound(room) ==
    [room EXCEPT !.roles_assigned = TRUE,
                 !.guess_submitted = FALSE,
                 !.round_number = @ + 1]

assign_roles(roomId, ROLES) ==
    LET args == [roomId |-> roomId]
    IN  IF roomId \notin DOMAIN rooms
        THEN /\ last' = Post("assign_roles", args, HTTPException(404, "Room not found"))
             /\ UNCHANGED <<rooms, nextId, hist>>
        ELSE IF ~CanStart(rooms[roomId])
        THEN /\ last' = Post("assign_roles", args, HTTPException(400,
                            "Exactly 4 players are required to start the game"))
             /\ UNCHANGED <<rooms, nextId, hist>>
        ELSE LET room == StartRound(AssignLoop(rooms[roomId], ROLES, 1))
             IN  /\ rooms' = [rooms EXCEPT ![roomId] = room]
                 /\ hist' = [hist EXCEPT ![roomId].assigns = @ + 1,
                                         ![roomId].fresh = FALSE]
                 /\ last' = Post("assign_roles", args,
                        Return([message |-> "Roles assigned for round "
                                        \o ToString(room.round_number)]))
                 /\ UNCHANGED nextId

-----------------------------------------------------------------------------
(* GET /role/me/{roomId}/{playerId} *)

\* for p in rooms[roomId].players: if p.id == playerId: return ...
RECURSIVE FindPlayer(_, _, _)
FindPlayer(players, playerId, i) ==
    IF i > Len(players) THEN 0
    ELSE IF players[i].id = playerId THEN i
    ELSE FindPlayer(players, playerId, i + 1)

view_role(roomId, playerId) ==
    IF roomId \notin DOMAIN rooms
    THEN HTTPException(404, "Room not found")
    ELSE LET i == FindPlayer(rooms[roomId].players, playerId, 1)
         IN  IF i # 0
             THEN Return([playerId |-> rooms[roomId].players[i].id,
                          role |-> rooms[roomId].players[i].role])
             ELSE HTTPException(404, "Player not found")

-----------------------------------------------------------------------------
(* POST /guess/{roomId} *)

\* Gain that pays the standard points whatever the outcome
GainStandard(role, correct_guess) == POINTS(role)

\* the points one player gets in the scoring loop body
Gain(role, correct_guess) ==
    IF correct_guess
    THEN POINTS(role)
    ELSE IF role = "Chor" THEN POINTS("Mantri")
    ELSE IF role = "Mantri" THEN 0
    ELSE POINTS(role)

\* POINTS[p.role] is looked up for every role after a correct guess and for
\* the roles other than Chor and Mantri after an incorrect one
LooksUp(role, correct_guess) == correct_guess \/ role \notin {"Chor", "Mantri"}

\* ScoreLoop that sets the score to the round's points instead of adding them
RECURSIVE ScoreLoopReplace(_, _, _)
ScoreLoopReplace(players, correct_guess, i) ==
    IF i > Len(players)
    THEN [players |-> players, raised |-> FALSE]
    ELSE LET role == players[i].role
         IN  IF LooksUp(role, correct_guess) /\ ~HasPoints(role)
             THEN [players |-> players, raised |-> TRUE]
             ELSE ScoreLoopReplace(
                    [players EXCEPT ![i].score = Gain(role, correct_guess)],
                    correct_guess, i + 1)

\* for p in room.players, from position i on; a lookup POINTS[p.role] raises
\* KeyError for a role that is no key of POINTS and the loop stops there
RECURSIVE ScoreLoop(_, _, _)
ScoreLoop(players, correct_guess, i) ==
    IF i > Len(players)
    THEN [players |-> players, raised |-> FALSE]
    ELSE LET role == players[i].role
         IN  IF LooksUp(role, correct_guess) /\ ~HasPoints(role)
             THEN [players |-> players, raised |-> TRUE]
             ELSE ScoreLoop([players EXCEPT ![i].score = @ + Gain(role, correct_guess)],
                            correct_guess, i + 1)

\* the scoring table of the rules, by role and outcome
TableDelta(role, correct) ==
    CASE role = "Raja" -> 1000
      [] role = "Mantri" -> IF correct THEN 800 ELSE 0
      [] role = "Chor" -> IF correct THEN 0 ELSE 800
      [] role = "Sipahi" -> 500
      [] OTHER -> 0

\* OnlyMantri that lets the Mantri guess once a round
OnlyMantriOnce(room, playerId) ==
    playerId = room.mantri_id /\ ~room.guess_submitted

\* OnlyMantri that lets every active player guess
AnyActivePlayer(room, playerId) == playerId \in Ids(room.players)

\* data.playerId != room.mantri_id raises; a request carries a string, never None
OnlyMantri(room, playerId) == playerId = room.mantri_id

\* RecordGuess that forgets to store the guessed id
RecordGuessFlagOnly(room, guessedPlayerId) ==
    [room EXCEPT !.guess_submitted = TRUE]

\* room.guess_submitted = True; room.guessed_player_id = data.guessedPlayerId
RecordGuess(room, guessedPlayerId) ==
    [room EXCEPT !.guess_submitted = TRUE,
                 !.guessed_player_id = guessedPlayerId]

\* CorrectGuess that also accepts an id of nobody in the room
CorrectGuessLenient(room) ==
    \/ room.guessed_player_id = room.chor_id
    \/ room.guessed_player_id \notin Ids(room.players) \cup Ids(room.waitlist)

\* correct_guess = (room.guessed_player_id == room.chor_id)
CorrectGuess(room) == room.guessed_player_id = room.chor_id

\* history: every active player is credited what the table gives to the role
EarnedAfter(earned, room, correct) ==
    [id \in DOMAIN earned |->
        IF \E i \in 1..Len(room.players) : room.players[i].id = id
        THEN LET i == CHOOSE i \in 1..Len(room.players) : room.players[i].id = id
             IN  earned[id] + TableDelta(room.players[i].role, correct)
        ELSE earned[id]]

submit_guess(roomId, playerId, guessedPlayerId) ==
    LET args == [roomId |-> roomId, playerId |-> playerId,
                 guessedPlayerId |-> guessedPlayerId]
    IN  IF roomId \notin DOMAIN rooms
        THEN /\ last' = Post("submit_guess", [roomId |-> roomId],
                             HTTPException(404, "Room not found"))
             /\ UNCHANGED <<rooms, nextId, hist>>
        ELSE IF ~OnlyMantri(rooms[roomId], playerId)
        THEN /\ last' = Post("submit_guess", [roomId |-> roomId, playerId |-> playerId],
                             HTTPException(403, "Only Mantri can guess"))
             /\ UNCHANGED <<rooms, nextId, hist>>
        ELSE LET room == RecordGuess(rooms[roomId], guessedPlayerId)
                 correct_guess == CorrectGuess(room)
                 loop == ScoreLoop(room.players, correct_guess, 1)
                 after == [room EXCEPT !.players = loop.players]
             IN  /\ rooms' = [rooms EXCEPT ![roomId] = after]
                 /\ UNCHANGED nextId
                 /\ IF loop.raised
                    THEN /\ last' = Post("submit_guess", args,
                                    HTTPException(500, "Internal Server Error"))
                         /\ hist' = [hist EXCEPT ![roomId].raised = @ + 1]
                    ELSE /\ last' = Post("submit_guess", args,
                                Return([result |-> IF correct_guess THEN "correct"
                                                                    ELSE "incorrect",
                                        actualChorId |-> room.chor_id]))
                         /\ hist' = [hist EXCEPT
                                ![roomId].guesses = @ + 1,
                                ![roomId].fresh = TRUE,
                                ![roomId].earned =
                                    EarnedAfter(@, room, guessedPlayerId = room.chor_id)]

-----------------------------------------------------------------------------
(* GET /result/{roomId} *)

result(roomId) ==
    IF roomId \notin DOMAIN rooms
    THEN HTTPException(404, "Room not found")
    ELSE LET room == rooms[roomId]
         IN  IF ~room.roles_assigned
             THEN HTTPException(400, "Roles not assigned yet")
             ELSE IF ~room.guess_submitted
             THEN HTTPException(400, "Mantri has not guessed yet")
             ELSE Return([round |-> room.round_number,
                          players |-> [i \in 1..Len(room.players) |->
                            [id |-> room.players[i].id,
                             name |-> room.players[i].name,
                             role |-> IF room.players[i].role # None
                                      THEN room.players[i].role ELSE "Unknown",
                             score |-> room.players[i].score]]])

-----------------------------------------------------------------------------
(* GET /leaderboard/{roomId} *)

\* InsertDesc that puts p in front of the players with p's score
RECURSIVE InsertDescFront(_, _)
InsertDescFront(sorted, p) ==
    IF sorted = <<>> THEN <<p>>
    ELSE IF Head(sorted).score > p.score
         THEN <<Head(sorted)>> \o InsertDescFront(Tail(sorted), p)
         ELSE <<p>> \o sorted

\* p goes behind every player whose score is at least p's
RECURSIVE InsertDesc(_, _)
InsertDesc(sorted, p) ==
    IF sorted = <<>> THEN <<p>>
    ELSE IF Head(sorted).score >= p.score
         THEN <<Head(sorted)>> \o InsertDesc(Tail(sorted), p)
         ELSE <<p>> \o sorted

\* sorted(players, key=lambda p: p.score, reverse=True): a stable sort
RECURSIVE SortedDesc(_, _)
SortedDesc(players, acc) ==
    IF players = <<>> THEN acc
    ELSE SortedDesc(Tail(players), InsertDesc(acc, Head(players)))

leaderboard(roomId) ==
    IF roomId \notin DOMAIN rooms
    THEN HTTPException(404, "Room not found")
    ELSE LET sorted_players == SortedDesc(rooms[roomId].players, <<>>)
         IN  Return([leaderboard |-> [i \in 1..Len(sorted_players) |->
                        [id |-> sorted_players[i].id,
                         name |-> sorted_players[i].name,
                         score |-> sorted_players[i].score]]])

-----------------------------------------------------------------------------
(* The requests clients send *)

RoomIdArgs == DOMAIN rooms \cup {UnknownId}

\* ids a client may name in a room: its active and waitlisted players and a
\* string that is nobody's id
PlayerIdArgs(roomId) ==
    IF roomId \in DOMAIN rooms
    THEN Ids(rooms[roomId].players) \cup Ids(rooms[roomId].waitlist) \cup {UnknownId}
    ELSE {UnknownId}

\* the playerNames lists clients send: under Spec and SpecWait everybody is
\* called Alice, as under SpecScore; under SpecJoin the names of a list alternate
NameLists == {[i \in 1..n |-> "Alice"] : n \in 1..MaxNames}

WaitNameLists == {[i \in 1..n |-> "Alice"] : n \in 1..WaitMaxNames}

ScoreNameLists == {[i \in 1..n |-> "Alice"] : n \in 1..ScoreMaxNames}

JoinNameLists ==
    {[i \in 1..n |-> IF i % 2 = 1 THEN "Bob" ELSE "Chitra"] : n \in 1..JoinMaxNames}

\* A request is sent while the exploration's bounds leave room for its effect.
\* An argument the handler does not get to read (it raises before) is not
\* varied.
\* uuid4() draws the running join calls have yet to make
RECURSIVE Reserved(_)
Reserved(threads) ==
    IF threads = {} THEN 0
    ELSE LET t == CHOOSE t \in threads : TRUE
             c == calls[t]
         IN  Len(c.todo) - (IF c.pc = "if" THEN 0 ELSE 1) + Reserved(threads \ {t})

CreateRoom(maxIds) ==
    /\ nextId + 1 + Reserved(DOMAIN calls) <= maxIds
    /\ \E rn \in RoomNames, pn \in HostNames : create_room(rn, pn)
    /\ UNCHANGED calls

JoinMultiple(nameLists, maxIds) ==
    \E rid \in RoomIdArgs :
        IF rid \in DOMAIN rooms
        THEN \E pns \in nameLists :
                /\ nextId + Len(pns) - 1 <= maxIds
                /\ join_multiple_players(rid, pns)
                /\ UNCHANGED calls
        ELSE join_multiple_players(rid, <<"Alice">>) /\ UNCHANGED calls

AssignRoles(maxRounds) ==
    \E rid \in RoomIdArgs :
        IF rid \in DOMAIN rooms /\ CanStart(rooms[rid])
        THEN /\ rooms[rid].round_number < maxRounds
             /\ \E sh \in Shuffles : assign_roles(rid, sh)
             /\ UNCHANGED calls
        ELSE assign_roles(rid, RoleList) /\ UNCHANGED calls

SubmitGuess(maxGuesses) ==
    \E rid \in RoomIdArgs : \E pid \in PlayerIdArgs(rid) :
        IF rid \in DOMAIN rooms /\ OnlyMantri(rooms[rid], pid)
        THEN /\ hist[rid].guesses + hist[rid].raised < maxGuesses
             /\ \E gid \in PlayerIdArgs(rid) : submit_guess(rid, pid, gid)
             /\ UNCHANGED calls
        ELSE submit_guess(rid, pid, UnknownId) /\ UNCHANGED calls

\* a GET request is answered and leaves the state alone
GetPlayers ==
    \E rid \in RoomIdArgs :
        get_players(rid).status \in {200, 404} /\ UNCHANGED vars

ViewRole ==
    \E rid \in RoomIdArgs : \E pid \in PlayerIdArgs(rid) :
        view_role(rid, pid).status \in {200, 404} /\ UNCHANGED vars

GetResult ==
    \E rid \in RoomIdArgs :
        result(rid).status \in {200, 400, 404} /\ UNCHANGED vars

GetLeaderboard ==
    \E rid \in RoomIdArgs :
        leaderboard(rid).status \in {200, 404} /\ UNCHANGED vars

Next ==
    \/ CreateRoom(MaxIds)
    \/ JoinMultiple(NameLists, MaxIds)
    \/ GetPlayers
    \/ AssignRoles(MaxRounds)
    \/ ViewRole
    \/ SubmitGuess(MaxGuesses)
    \/ GetResult
    \/ GetLeaderboard

Spec == Init /\ [][Next]_vars

NextWait ==
    \/ CreateRoom(WaitMaxIds)
    \/ JoinMultiple(WaitNameLists, WaitMaxIds)
    \/ GetPlayers
    \/ AssignRoles(WaitMaxRounds)
    \/ ViewRole
    \/ SubmitGuess(WaitMaxGuesses)
    \/ GetResult
    \/ GetLeaderboard

SpecWait == Init /\ [][NextWait]_vars

NextScore ==
    \/ CreateRoom(ScoreMaxIds)
    \/ JoinMultiple(ScoreNameLists, ScoreMaxIds)
    \/ GetPlayers
    \/ AssignRoles(ScoreMaxRounds)
    \/ ViewRole
    \/ SubmitGuess(ScoreMaxGuesses)
    \/ GetResult
    \/ GetLeaderboard

SpecScore == Init /\ [][NextScore]_vars

-----------------------------------------------------------------------------
(* join_multiple_players in the threads of the pool, a statement at a time *)

Threads == 1..MaxThreads

RaceNameLists == {[i \in 1..n |-> "Alice"] : n \in 1..RaceMaxNames}

OnRoom(roomId) == {t \in DOMAIN calls : calls[t].roomId = roomId}

\* a thread takes the request: the room is looked up, added and waitlisted
\* start empty
JoinBegin(t) ==
    /\ t \notin DOMAIN calls
    /\ \E rid \in RoomIdArgs :
        IF rid \notin DOMAIN rooms
        THEN /\ last' = Post("join_multiple_players", [roomId |-> rid],
                             HTTPException(404, "Room not found"))
             /\ UNCHANGED <<rooms, nextId, hist, calls>>
        ELSE \E pns \in RaceNameLists :
                /\ nextId + Reserved(DOMAIN calls) + Len(pns) - 1 <= RaceMaxIds
                /\ calls' = (t :> [roomId |-> rid, playerNames |-> pns, todo |-> pns,
                                   pc |-> "if", p |-> <<>>,
                                   added |-> <<>>, waitlisted |-> <<>>]) @@ calls
                /\ hist' = [hist EXCEPT ![rid].raced = @ \/ OnRoom(rid) # {}]
                /\ UNCHANGED <<rooms, nextId, last>>

\* p = Player(name); if len(room.players) < 4
JoinIf(t) ==
    /\ t \in DOMAIN calls
    /\ calls[t].pc = "if"
    /\ LET c == calls[t]
           p == Player(Head(c.todo), Uuid(nextId))
       IN  /\ calls' = [calls EXCEPT ![t].p = <<p>>,
                                     ![t].pc = IF HasSeat(rooms[c.roomId])
                                               THEN "players" ELSE "waitlist"]
           /\ nextId' = nextId + 1
           /\ hist' = [hist EXCEPT ![c.roomId].earned = @ @@ (p.id :> 0)]
           /\ UNCHANGED <<rooms, last>>

\* the branch taken: the append to room.players or to room.waitlist and to
\* the answer's list; after the last name the handler returns
JoinAppend(t) ==
    /\ t \in DOMAIN calls
    /\ calls[t].pc \in {"players", "waitlist"}
    /\ LET c == calls[t]
           p == c.p[1]
           e == [id |-> p.id, name |-> p.name]
           added == IF c.pc = "players" THEN Append(c.added, e) ELSE c.added
           waitlisted == IF c.pc = "waitlist" THEN Append(c.waitlisted, e)
                                              ELSE c.waitlisted
       IN  /\ rooms' = IF c.pc = "players"
                        THEN [rooms EXCEPT ![c.roomId].players = Append(@, p)]
                        ELSE [rooms EXCEPT ![c.roomId].waitlist = Append(@, p)]
           /\ IF Len(c.todo) > 1
              THEN /\ calls' = [calls EXCEPT ![t].todo = Tail(@),
                                             ![t].pc = "if",
                                             ![t].p = <<>>,
                                             ![t].added = added,
                                             ![t].waitlisted = waitlisted]
                   /\ UNCHANGED last
              ELSE /\ calls' = [u \in DOMAIN calls \ {t} |-> calls[u]]
                   /\ last' = Post("join_multiple_players",
                                   [roomId |-> c.roomId, playerNames |-> c.playerNames],
                                   Return([roomId |-> rooms[c.roomId].id,
                                           added |-> added,
                                           waitlisted |-> waitlisted,
                                           message |-> "Players processed successfully"]))
           /\ UNCHANGED <<nextId, hist>>

NextRace ==
    \/ CreateRoom(RaceMaxIds)
    \/ \E t \in Threads : JoinBegin(t)
    \/ \E t \in Threads : JoinIf(t)
    \/ \E t \in Threads : JoinAppend(t)
    \/ GetPlayers
    \/ AssignRoles(RaceMaxRounds)
    \/ ViewRole
    \/ SubmitGuess(RaceMaxGuesses)
    \/ GetResult
    \/ GetLeaderboard

SpecRace == Init /\ [][NextRace]_vars

NextJoin ==
    \/ CreateRoom(JoinMaxIds)
    \/ JoinMultiple(JoinNameLists, JoinMaxIds)
    \/ GetPlayers
    \/ AssignRoles(JoinMaxRounds)
    \/ ViewRole
    \/ SubmitGuess(JoinMaxGuesses)
    \/ GetResult
    \/ GetLeaderboard

SpecJoin == Init /\ [][NextJoin]_vars

-----------------------------------------------------------------------------
(* Properties *)

Roles == {"Raja", "Mantri", "Chor", "Sipahi"}

\* the ids of the active players of a room who hold a role
HolderIds(room, role) ==
    {room.players[i].id : i \in {j \in 1..Len(room.players) : room.players[j].role = role}}

\* C1: in every reachable state, a room whose roles are assigned has exactly
\* four active players, none of them without a role, and each of Raja,
\* Mantri, Chor and Sipahi is held by exactly one of them.
C1_RolesArePermutation ==
    \A rid \in DOMAIN rooms :
        LET room == rooms[rid]
        IN  room.roles_assigned =>
                /\ Len(room.players) = 4
                /\ \A i \in 1..Len(room.players) : room.players[i].role # None
                /\ \A role \in Roles :
                        Cardinality({i \in 1..Len(room.players) :
                                        room.players[i].role = role}) = 1

C1_Witness ==
    \E rid \in DOMAIN rooms :
        /\ rooms[rid].roles_assigned
        /\ rooms[rid].round_number = 2
        /\ rooms[rid].players[1].role = "Chor"
        /\ rooms[rid].players[4].role = "Raja"

\* C2: in every reachable state, mantri_id and chor_id are None while the
\* roles are not assigned; once they are, mantri_id is the id of the active
\* player whose role is Mantri and chor_id the id of the one whose role is
\* Chor, in the first round and in every later one.
C2_MantriChorIds ==
    \A rid \in DOMAIN rooms :
        LET room == rooms[rid]
        IN  IF room.roles_assigned
            THEN /\ HolderIds(room, "Mantri") = {room.mantri_id}
                 /\ HolderIds(room, "Chor") = {room.chor_id}
            ELSE /\ room.mantri_id = None
                 /\ room.chor_id = None

C2_Witness ==
    \E rid \in DOMAIN rooms :
        /\ rooms[rid].round_number = 2
        /\ hist[rid].guesses = 1
        /\ rooms[rid].guessed_player_id = rooms[rid].mantri_id
        /\ rooms[rid].mantri_id = rooms[rid].players[4].id
        /\ rooms[rid].chor_id = rooms[rid].players[1].id

\* C3: a successful submit_guess adds to the score of every active player
\* the points of the scoring table for the player's role and the outcome
\* (correct exactly when the guessed id is chor_id), and returns that outcome
\* together with chor_id.
C3_GuessScoresByTable ==
    [][ (last'.op = "submit_guess" /\ last'.status = 200) =>
            LET rid == last'.args.roomId
                before == rooms[rid]
                after == rooms'[rid]
                correct == (last'.args.guessedPlayerId = before.chor_id)
            IN  /\ Len(after.players) = Len(before.players)
                /\ \A i \in 1..Len(before.players) :
                        after.players[i].score =
                            before.players[i].score
                                + TableDelta(before.players[i].role, correct)
                /\ last'.body.result = (IF correct THEN "correct" ELSE "incorrect")
                /\ last'.body.actualChorId = before.chor_id
      ]_vars

C3_Witness ==
    /\ last.op = "submit_guess"
    /\ last.status = 200
    /\ last.body.result = "incorrect"
    /\ hist[last.args.roomId].guesses = 2
    /\ rooms[last.args.roomId].round_number = 2

\* C4: in a room whose roles are assigned, submit_guess succeeds exactly when
\* the caller's id is the id of the player who holds the Mantri role now; for
\* every other id it fails with 403.
C4_OnlyMantriGuesses ==
    [][ (/\ last'.op = "submit_guess"
         /\ last'.status # 404
         /\ rooms[last'.args.roomId].roles_assigned) =>
            LET room == rooms[last'.args.roomId]
                isMantri == last'.args.playerId \in HolderIds(room, "Mantri")
            IN  /\ last'.status = 200 <=> isMantri
                /\ ~isMantri => last'.status = 403
      ]_vars

C4_Witness ==
    /\ last.op = "submit_guess"
    /\ last.status = 403
    /\ rooms[last.args.roomId].round_number = 2
    /\ last.args.playerId \in Ids(rooms[last.args.roomId].waitlist)

\* how many of n new players become active in a room with k active players
Admitted(k, n) == IF k >= 4 THEN 0 ELSE Min(4 - k, n)

\* C5: no room ever has more than four active players, and a successful
\* join_multiple_players takes the names in the order given: the first ones
\* are appended to the active players until there are four, the others are
\* appended to the waitlist, and the reply lists both groups in that order.
C5_FillThenOverflow ==
    [][ /\ \A rid \in DOMAIN rooms' : Len(rooms'[rid].players) <= 4
        /\ (last'.op = "join_multiple_players" /\ last'.status = 200) =>
            LET rid == last'.args.roomId
                names == last'.args.playerNames
                before == rooms[rid]
                after == rooms'[rid]
                k == Len(before.players)
                w == Len(before.waitlist)
                a == Admitted(k, Len(names))
            IN  /\ Len(after.players) = k + a
                /\ Len(after.waitlist) = w + Len(names) - a
                /\ \A i \in 1..k : after.players[i] = before.players[i]
                /\ \A i \in 1..w : after.waitlist[i] = before.waitlist[i]
                /\ \A j \in 1..a : after.players[k + j].name = names[j]
                /\ \A j \in 1..(Len(names) - a) :
                        after.waitlist[w + j].name = names[a + j]
                /\ last'.body.added =
                        [j \in 1..a |-> [id |-> after.players[k + j].id,
                                         name |-> names[j]]]
                /\ last'.body.waitlisted =
                        [j \in 1..(Len(names) - a) |->
                            [id |-> after.waitlist[w + j].id, name |-> names[a + j]]]
      ]_vars

\* five names joined a room that held only its host
C5_Witness ==
    /\ last.op = "join_multiple_players"
    /\ last.status = 200
    /\ Len(last.args.playerNames) = 5
    /\ Len(last.body.added) = 3
    /\ Len(last.body.waitlisted) = 2
    /\ Len(rooms[last.args.roomId].players) = 4
    /\ Len(rooms[last.args.roomId].waitlist) = 2

\* C6: assign_roles on an existing room succeeds exactly when the room has
\* four active players; otherwise it fails with 400 and leaves the room
\* (roles, mantri_id, chor_id, flags, guessed id, round number) as it was.
C6_AssignNeedsFour ==
    [][ (last'.op = "assign_roles" /\ last'.args.roomId \in DOMAIN rooms) =>
            LET rid == last'.args.roomId
                four == (Len(rooms[rid].players) = 4)
            IN  /\ last'.status = 200 <=> four
                /\ ~four => /\ last'.status = 400
                            /\ rooms'[rid] = rooms[rid]
      ]_vars

C6_Witness ==
    /\ last.op = "assign_roles"
    /\ last.status = 400
    /\ Len(rooms[last.args.roomId].players) = 3

\* C7: result on an existing room succeeds exactly when a guess has succeeded
\* since the latest successful assign_roles; otherwise it fails with 400.
C7_ResultNeedsGuessThisRound ==
    \A rid \in DOMAIN rooms :
        LET guessed == (hist[rid].assigns > 0 /\ hist[rid].fresh)
        IN  /\ result(rid).status = 200 <=> guessed
            /\ ~guessed => result(rid).status = 400

\* a second round has begun after a guess in the first: no result yet
C7_Witness ==
    \E rid \in DOMAIN rooms :
        /\ hist[rid].assigns = 2
        /\ hist[rid].guesses = 1
        /\ ~hist[rid].fresh
        /\ result(rid).status = 400
        /\ result(rid).body.detail = "Mantri has not guessed yet"

\* C8: a successful assign_roles changes no score; no step lowers a score;
\* every score is at least 0 and equals the sum of the table's points the
\* player was due in the guesses made so far.
C8_ScoresAccumulate ==
    [][ /\ (last'.op = "assign_roles" /\ last'.status = 200) =>
            LET rid == last'.args.roomId
            IN  \A i \in 1..Len(rooms[rid].players) :
                    rooms'[rid].players[i].score = rooms[rid].players[i].score
        /\ \A rid \in DOMAIN rooms : \A i \in 1..Len(rooms[rid].players) :
                rooms'[rid].players[i].score >= rooms[rid].players[i].score
        /\ \A rid \in DOMAIN rooms' : \A i \in 1..Len(rooms'[rid].players) :
                LET p == rooms'[rid].players[i]
                IN  p.score >= 0 /\ p.score = hist'[rid].earned[p.id]
      ]_vars

\* two rounds with one guess each; somebody was Raja and then evaded as Chor
C8_Witness ==
    \E rid \in DOMAIN rooms :
        /\ hist[rid].assigns = 2
        /\ hist[rid].guesses = 2
        /\ rooms[rid].guess_submitted
        /\ \E i \in 1..Len(rooms[rid].players) :
                /\ rooms[rid].players[i].score = 1800
                /\ rooms[rid].players[i].role = "Chor"

\* C9: round_number is 0 in a new room, a successful assign_roles adds
\* exactly 1 to it, every other step leaves it as it is, and it always
\* equals the number of successful assign_roles calls on the room.
C9_RoundNumberCounts ==
    [][ /\ \A rid \in DOMAIN rooms' :
            /\ rooms'[rid].round_number = hist'[rid].assigns
            /\ rid \notin DOMAIN rooms => rooms'[rid].round_number = 0
        /\ \A rid \in DOMAIN rooms :
            IF last'.op = "assign_roles" /\ last'.status = 200
                    /\ last'.args.roomId = rid
            THEN rooms'[rid].round_number = rooms[rid].round_number + 1
            ELSE rooms'[rid].round_number = rooms[rid].round_number
      ]_vars

\* a failed guess after the second round began
C9_Witness ==
    /\ last.op = "submit_guess"
    /\ last.status = 403
    /\ rooms[last.args.roomId].round_number = 2
    /\ hist[last.args.roomId].assigns = 2

\* C10: in every reachable state, a room whose guess is submitted has its
\* roles assigned and a guessed id that is not None.
C10_GuessImpliesRoles ==
    \A rid \in DOMAIN rooms :
        rooms[rid].guess_submitted =>
            /\ rooms[rid].roles_assigned
            /\ rooms[rid].guessed_player_id # None

C10_Witness ==
    \E rid \in DOMAIN rooms :
        /\ rooms[rid].guess_submitted
        /\ rooms[rid].guessed_player_id = rooms[rid].chor_id
        /\ rooms[rid].round_number = 1

\* C11: in every reachable state, a room's guessed_player_id is other than
\* None only if its guess is submitted (a successful assign_roles leaves
\* guess_submitted false and guessed_player_id None).
C11_GuessedIdOnlyWithGuess ==
    \A rid \in DOMAIN rooms :
        rooms[rid].guessed_player_id # None => rooms[rid].guess_submitted

\* the place of the i-th active player in the leaderboard: behind the players
\* with a higher score and the earlier players with the same score
Place(players, i) ==
    1 + Cardinality({j \in 1..Len(players) : players[j].score > players[i].score})
      + Cardinality({j \in 1..(i - 1) : players[j].score = players[i].score})

\* C12: the leaderboard of a room lists exactly its active players, by
\* descending score, players of equal score in the order of the active list,
\* and no waitlisted player.
C12_LeaderboardStableDesc ==
    \A rid \in DOMAIN rooms :
        LET players == rooms[rid].players
            answer == leaderboard(rid)
            board == answer.body.leaderboard
        IN  /\ answer.status = 200
            /\ Len(board) = Len(players)
            /\ \A i \in 1..Len(players) :
                    board[Place(players, i)] = [id |-> players[i].id,
                                                name |-> players[i].name,
                                                score |-> players[i].score]
            /\ \A k \in 1..Len(board) : board[k].id \notin Ids(rooms[rid].waitlist)

\* a room with a waitlist whose active list is out of score order and has two
\* players level on points they earned
C12_Witness ==
    \E rid \in DOMAIN rooms :
        LET players == rooms[rid].players
        IN  /\ rooms[rid].waitlist # <<>>
            /\ leaderboard(rid).status = 200
            /\ \E i, j \in 1..Len(players) :
                    i < j /\ players[i].score = players[j].score /\ players[i].score > 0
            /\ \E i, j \in 1..Len(players) : i < j /\ players[i].score < players[j].score

\* C13: every request is answered 200, 400, 403 or 404; one that is not
\* answered 200 leaves the directory, every room and the id source as they
\* were; a guess answered 200 moves the score of every active player of its
\* room by the table's delta for the player's role and leaves the other rooms
\* alone.
C13_AllOrNothing ==
    [][ /\ last'.status \in {200, 400, 403, 404}
        /\ last'.status # 200 => /\ rooms' = rooms
                                 /\ nextId' = nextId
        /\ (last'.op = "submit_guess" /\ last'.status = 200) =>
                LET rid == last'.args.roomId
                    correct == (last'.body.result = "correct")
                IN  /\ DOMAIN rooms' = DOMAIN rooms
                    /\ \A other \in DOMAIN rooms \ {rid} : rooms'[other] = rooms[other]
                    /\ Len(rooms'[rid].players) = Len(rooms[rid].players)
                    /\ \A i \in 1..Len(rooms[rid].players) :
                            rooms'[rid].players[i].score =
                                rooms[rid].players[i].score
                                    + TableDelta(rooms[rid].players[i].role, correct)
      ]_vars

\* a request has just failed in a directory of two rooms, one of them with a
\* guess scored
C13_Witness ==
    /\ last.status \in {400, 403, 404}
    /\ Cardinality(DOMAIN rooms) = 2
    /\ \E rid \in DOMAIN rooms : hist[rid].guesses > 0

\* C14: a guess by the Mantri of a room whose guess of the round is already
\* submitted is answered 200 like the first, is counted, and moves every
\* active player's score by the table's delta of this guess once more.
C14_GuessAgainScoresAgain ==
    [][ (/\ last'.op = "submit_guess"
         /\ last'.args.roomId \in DOMAIN rooms
         /\ rooms[last'.args.roomId].guess_submitted
         /\ last'.args.playerId = rooms[last'.args.roomId].mantri_id) =>
            LET rid == last'.args.roomId
                correct == (last'.args.guessedPlayerId = rooms[rid].chor_id)
            IN  /\ last'.status = 200
                /\ last'.body.result = IF correct THEN "correct" ELSE "incorrect"
                /\ hist'[rid].guesses = hist[rid].guesses + 1
                /\ rooms'[rid].round_number = rooms[rid].round_number
                /\ \A i \in 1..Len(rooms[rid].players) :
                        rooms'[rid].players[i].score =
                            rooms[rid].players[i].score
                                + TableDelta(rooms[rid].players[i].role, correct)
      ]_vars

\* two guesses were accepted in the first round of a room: its Raja has 2000
C14_Witness ==
    \E rid \in DOMAIN rooms :
        /\ last.op = "submit_guess" /\ last.status = 200 /\ last.args.roomId = rid
        /\ rooms[rid].round_number = 1
        /\ hist[rid].guesses = 2
        /\ \E i \in 1..Len(rooms[rid].players) :
                rooms[rid].players[i].role = "Raja" /\ rooms[rid].players[i].score = 2000

\* every id in use: the rooms' and their active and waitlisted players'
UsedIds ==
    DOMAIN rooms \cup
    UNION {Ids(rooms[rid].players) \cup Ids(rooms[rid].waitlist) : rid \in DOMAIN rooms}

\* C15: create_room is answered 200 and adds one room to the directory under
\* an id no room had, with the host (an id nobody had, score 0, no role) as
\* its only active player, an empty waitlist, both flags false, the three ids
\* None and round_number 0; the rooms there were are unchanged.
C15_CreateRoomFresh ==
    [][ last'.op = "create_room" =>
            LET rid == last'.body.roomId
                hostId == last'.body.playerId
            IN  /\ last'.status = 200
                /\ rid \notin UsedIds
                /\ hostId \notin UsedIds
                /\ hostId # rid
                /\ DOMAIN rooms' = DOMAIN rooms \cup {rid}
                /\ \A other \in DOMAIN rooms : rooms'[other] = rooms[other]
                /\ rooms'[rid] =
                        [id |-> rid, name |-> last'.args.roomName,
                         players |-> <<[id |-> hostId, name |-> last'.args.playerName,
                                        role |-> None, score |-> 0]>>,
                         waitlist |-> <<>>,
                         roles_assigned |-> FALSE,
                         mantri_id |-> None,
                         chor_id |-> None,
                         guess_submitted |-> FALSE,
                         guessed_player_id |-> None,
                         round_number |-> 0]
      ]_vars

\* a room was just created beside one that is full and has a waitlist
C15_Witness ==
    /\ last.op = "create_room"
    /\ Cardinality(DOMAIN rooms) = 2
    /\ \E rid \in DOMAIN rooms :
            Len(rooms[rid].players) = 4 /\ rooms[rid].waitlist # <<>>

\* C16: a room's mantri_id is None exactly while no assign_roles of the room
\* was answered 200; a submit_guess on such a room, whoever sends it, is
\* answered 403 and changes nothing; and a room with a guess answered 200 has
\* had an assign_roles answered 200.
C16_NoGuessBeforeRoles ==
    [][ /\ \A rid \in DOMAIN rooms' :
                /\ rooms'[rid].mantri_id = None <=> hist'[rid].assigns = 0
                /\ hist'[rid].guesses > 0 => hist'[rid].assigns > 0
        /\ (/\ last'.op = "submit_guess"
            /\ last'.args.roomId \in DOMAIN rooms
            /\ rooms[last'.args.roomId].mantri_id = None) =>
                /\ last'.status = 403
                /\ rooms' = rooms
                /\ hist' = hist
      ]_vars

\* an active player of a full room without roles has just been refused
C16_Witness ==
    /\ last.op = "submit_guess"
    /\ last.status = 403
    /\ last.args.roomId \in DOMAIN rooms
    /\ LET room == rooms[last.args.roomId]
       IN  /\ room.mantri_id = None
           /\ Len(room.players) = 4
           /\ last.args.playerId \in Ids(room.players)

\* C17: a join_multiple_players on a room with four active players is
\* answered 200 and changes nothing but the room's waitlist, which gets the
\* newcomers at its end in the order of the request, each with an id nobody
\* had, no role and score 0; the active list of a room with four players is
\* the same after every step; and a waitlisted player has no role and score 0.
C17_FullRoomJoinOnlyWaitlists ==
    [][ /\ (/\ last'.op = "join_multiple_players"
            /\ last'.args.roomId \in DOMAIN rooms
            /\ Len(rooms[last'.args.roomId].players) = 4) =>
                LET rid == last'.args.roomId
                    names == last'.args.playerNames
                    before == rooms[rid].waitlist
                    after == rooms'[rid].waitlist
                IN  /\ last'.status = 200
                    /\ DOMAIN rooms' = DOMAIN rooms
                    /\ \A other \in DOMAIN rooms \ {rid} : rooms'[other] = rooms[other]
                    /\ [rooms'[rid] EXCEPT !.waitlist = before] = rooms[rid]
                    /\ Len(after) = Len(before) + Len(names)
                    /\ SubSeq(after, 1, Len(before)) = before
                    /\ \A i \in 1..Len(names) :
                            LET p == after[Len(before) + i]
                            IN  /\ p.name = names[i]
                                /\ p.role = None
                                /\ p.score = 0
                                /\ p.id \notin UsedIds
                                /\ p.id = last'.body.waitlisted[i].id
                                /\ \A j \in 1..Len(names) :
                                        j # i => after[Len(before) + j].id # p.id
                    /\ last'.body.added = <<>>
        /\ \A rid \in DOMAIN rooms :
                Len(rooms[rid].players) = 4 =>
                    [i \in 1..4 |-> rooms'[rid].players[i].id]
                        = [i \in 1..4 |-> rooms[rid].players[i].id]
        /\ \A rid \in DOMAIN rooms' : \A k \in 1..Len(rooms'[rid].waitlist) :
                /\ rooms'[rid].waitlist[k].role = None
                /\ rooms'[rid].waitlist[k].score = 0
      ]_vars

\* a second request has lengthened the waitlist of a room whose active
\* players have roles and points
C17_Witness ==
    /\ last.op = "join_multiple_players"
    /\ last.status = 200
    /\ last.args.roomId \in DOMAIN rooms
    /\ LET room == rooms[last.args.roomId]
       IN  /\ last.body.added = <<>>
           /\ Len(room.waitlist) = 2
           /\ Len(last.body.waitlisted) = 1
           /\ room.roles_assigned
           /\ hist[room.id].guesses > 0

RECURSIVE SumScores(_)
SumScores(players) ==
    IF players = <<>> THEN 0 ELSE Head(players).score + SumScores(Tail(players))

\* C19: the scores of a room's active players add up to 2300 times the number
\* of its guesses answered 200, so each such guess adds exactly 2300 to the
\* total, whatever its outcome; the score of a waitlisted player is 0.
C19_TotalIs2300PerGuess ==
    \A rid \in DOMAIN rooms :
        /\ SumScores(rooms[rid].players) = 2300 * hist[rid].guesses
        /\ SumScores(rooms[rid].waitlist) = 0
        /\ \A k \in 1..Len(rooms[rid].waitlist) : rooms[rid].waitlist[k].score = 0

\* a room with a waitlist after a correct and an incorrect guess: Mantri and
\* Chor have 800 each and the total is 4600
C19_Witness ==
    \E rid \in DOMAIN rooms :
        /\ rooms[rid].waitlist # <<>>
        /\ hist[rid].guesses = 2
        /\ SumScores(rooms[rid].players) = 4600
        /\ \A i \in 1..Len(rooms[rid].players) :
                rooms[rid].players[i].role \in {"Mantri", "Chor"} =>
                    rooms[rid].players[i].score = 800

\* C20: a guess by the Mantri that names any id other than chor_id (the
\* Mantri's own, a waitlisted player's, nobody's) is answered 200 with result
\* "incorrect", is stored as guessed_player_id, and is scored as a miss: the
\* Chor gets 800 and the Mantri nothing.
C20_AnyOtherIdIsAMiss ==
    [][ (/\ last'.op = "submit_guess"
         /\ last'.args.roomId \in DOMAIN rooms
         /\ last'.args.playerId = rooms[last'.args.roomId].mantri_id
         /\ last'.args.guessedPlayerId # rooms[last'.args.roomId].chor_id) =>
            LET rid == last'.args.roomId
                players == rooms[rid].players
            IN  /\ last'.status = 200
                /\ last'.body.result = "incorrect"
                /\ last'.body.actualChorId = rooms[rid].chor_id
                /\ rooms'[rid].guess_submitted
                /\ rooms'[rid].guessed_player_id = last'.args.guessedPlayerId
                /\ \A i \in 1..Len(players) :
                        rooms'[rid].players[i].score - players[i].score =
                            CASE players[i].id = rooms[rid].chor_id -> 800
                              [] players[i].id = rooms[rid].mantri_id -> 0
                              [] OTHER -> TableDelta(players[i].role, FALSE)
      ]_vars

\* the Mantri has just named a waitlisted player and the room stores that id
C20_Witness ==
    /\ last.op = "submit_guess"
    /\ last.status = 200
    /\ LET room == rooms[last.args.roomId]
       IN  /\ last.args.guessedPlayerId \in Ids(room.waitlist)
           /\ room.guessed_player_id = last.args.guessedPlayerId
           /\ last.body.result = "incorrect"
           /\ \E i \in 1..Len(room.players) :
                    room.players[i].id = room.chor_id /\ room.players[i].score = 800

\* C18: a room gets more than four active players, misses a player a call
\* has created once no call is running on it, or shows an active player a
\* score other than the points handed to that player, only if a
\* join_multiple_players began on it while another was running on it; the
\* steps of calls on other rooms, and assign_roles and submit_guess on the
\* room itself, may come in between the statements of a call.
C18_OverflowNeedsOverlap ==
    \A rid \in DOMAIN rooms :
        LET room == rooms[rid]
            here == Ids(room.players) \cup Ids(room.waitlist)
        IN  (\/ Len(room.players) > 4
             \/ OnRoom(rid) = {} /\ DOMAIN hist[rid].earned # here
             \/ Cardinality(here) # Len(room.players) + Len(room.waitlist)
             \/ \E i \in 1..Len(room.players) :
                    room.players[i].score # hist[rid].earned[room.players[i].id])
                => hist[rid].raced

\* two calls that both found three active players have both appended: the
\* room has five
C18_Witness ==
    \E rid \in DOMAIN rooms :
        /\ Len(rooms[rid].players) = 5
        /\ hist[rid].raced

====
